---- MODULE Spec2Model ----
(***************************************************************************)
(* Model of scalabel/eval/tagging.py: the confusion accumulator, the       *)
(* precision/recall/F derivation, the score report builder and the tagging *)
(* orchestrator evaluate_tagging.                                          *)
(*                                                                         *)
(* Python values are modelled with their run-time type where the code's    *)
(* behaviour depends on it: a numpy array carries its number of dimensions *)
(* (the label arrays built at lines 231-232 are 1-dimensional), a call     *)
(* either returns a value or raises a named exception, and a float is an   *)
(* exact fraction (the only float tests in the code are tests against 0).  *)
(***************************************************************************)
EXTENDS Integers, Sequences, FiniteSets, TLC

VARIABLES
    \* ---- evaluate_tagging (lines 196-255) ----
    pc,          \* position in evaluate_tagging
    ntags,       \* len(tag_classes); the tags are TagNames[1..ntags]
    g_none,      \* g_none[i]: ann_frames[i].attributes is None
    p_none,      \* p_none[i]: pred_frames[i].attributes is None
    ti,          \* index of the tag being processed
    g_col,       \* g_col[i]: ann_frames[i].attributes[tag] for the current tag
    p_col,       \* p_col[i]: pred_frames[i].attributes[tag] for the current tag
    fi,          \* index of the next frame pair of the inner loop
    preds_cls,   \* line 221
    gts_cls,     \* line 221
    outputs,     \* line 217
    avgs,        \* line 218
    error,       \* the exception that ended the run, "none" otherwise
    \* ---- one call of a helper function (lines 20-167) ----
    fn,          \* the function applied, "idle" before the call
    args,        \* its arguments
    ret          \* what the call produced: a value or an exception

vars == <<pc, ntags, g_none, p_none, ti, g_col, p_col, fi, preds_cls,
          gts_cls, outputs, avgs, error, fn, args, ret>>

evalVars == <<pc, ntags, g_none, p_none, ti, g_col, p_col, fi, preds_cls,
              gts_cls, outputs, avgs, error>>

fnVars == <<fn, args, ret>>

(***************************************************************************)
(* Bounds of the model.                                                    *)
(***************************************************************************)
\* longest label array handed to a helper function
MaxLen == 3
\* largest number of frame pairs of an evaluation run
MaxFrames == 2
\* largest number of tags of the configuration
MaxTags == 2
\* largest count in a confusion table handed to the metric derivation
MaxCount == 2

\* class indices that may occur in a label array
ClassIds == 0 .. 2

(***************************************************************************)
(* Outcome of a Python call.                                               *)
(***************************************************************************)
Ok(v) == [ok |-> TRUE, exc |-> "none", val |-> v]

Raise(e) == [ok |-> FALSE, exc |-> e, val |-> <<>>]


(***************************************************************************)
(* Floats as exact fractions; d = 0 stands for NaN.                        *)
(***************************************************************************)
RECURSIVE Gcd(_, _)
Gcd(a, b) == IF b = 0 THEN a ELSE Gcd(b, a % b)

NaN == [n |-> 0, d |-> 0]

IsNaN(x) == x.d = 0

Frac(n, d) ==
    IF d = 0 THEN NaN
    ELSE LET g == Gcd(n, d) IN [n |-> n \div g, d |-> d \div g]

Float(k) == Frac(k, 1)

FMul(x, y) == IF IsNaN(x) \/ IsNaN(y) THEN NaN ELSE Frac(x.n * y.n, x.d * y.d)

FAdd(x, y) ==
    IF IsNaN(x) \/ IsNaN(y) THEN NaN ELSE Frac(x.n * y.d + y.n * x.d, x.d * y.d)

\* x / y for y # 0
FDiv(x, y) == IF IsNaN(x) \/ IsNaN(y) THEN NaN ELSE Frac(x.n * y.d, x.d * y.n)

FIsZero(x) == ~IsNaN(x) /\ x.n = 0

(***************************************************************************)
(* Sequences.                                                              *)
(***************************************************************************)
Range(s) == {s[i] : i \in 1 .. Len(s)}

Min(a, b) == IF a < b THEN a ELSE b

\* sorted(S) for a finite set of integers
RECURSIVE Sorted(_)
Sorted(S) ==
    IF S = {} THEN <<>>
    ELSE LET m == CHOOSE x \in S : \A y \in S : x <= y
         IN <<m>> \o Sorted(S \ {m})

\* the entries of s that are not in drop, in their order
RECURSIVE Without(_, _)
Without(s, drop) ==
    IF s = <<>> THEN <<>>
    ELSE (IF Head(s) \in drop THEN <<>> ELSE <<Head(s)>>) \o Without(Tail(s), drop)

\* list.index(x): position (from 0) of the first occurrence
Index(s, x) == (CHOOSE i \in 1 .. Len(s) : s[i] = x /\ \A j \in 1 .. i - 1 : s[j] # x) - 1

\* injective sequences over S of length at most k
InjSeqs(S, k) ==
    UNION {{s \in [1 .. n -> S] : \A i, j \in 1 .. n : i # j => s[i] # s[j]} : n \in 0 .. k}

\* sequences over S of length at most k
SeqsUpTo(S, k) == UNION {[1 .. n -> S] : n \in 0 .. k}

(***************************************************************************)
(* numpy arrays: ndim and the data (a 2-D array is a sequence of rows).    *)
(***************************************************************************)
Array1(data) == [ndim |-> 1, data |-> data]

\* y[:, cols]: indexing with two indices needs a 2-D array
getitem_columns(y, cols) ==
    IF y.ndim < 2 THEN Raise("IndexError")
    ELSE Ok([ndim |-> 2,
             data |-> [r \in 1 .. Len(y.data) |->
                          [j \in 1 .. Len(cols) |-> y.data[r][cols[j] + 1]]]])

\* y.multiply(other): numpy.ndarray has no method multiply
ndarray_multiply(y, other) == Raise("AttributeError")

(***************************************************************************)
(* _unique_labels, lines 20-30: np.unique of each array, the union of the  *)
(* two, sorted.                                                            *)
(***************************************************************************)
_unique_labels(y_true, y_pred) == Sorted(Range(y_true.data) \cup Range(y_pred.data))

\* np.setdiff1d(a, b, assume_unique=True): the entries of a not in b
setdiff1d(a, b) == Without(a, Range(b))

(***************************************************************************)
(* _multilabel_confusion_matrix, lines 60-84.  Line 69 indexes y_true with *)
(* two indices; for the 1-D label arrays this raises IndexError.  Past     *)
(* line 70 a (dense) 2-D array meets .multiply at line 74, which ndarray   *)
(* does not have, so no ndarray input reaches lines 75-84.                 *)
(***************************************************************************)
_multilabel_confusion_matrix(y_true, y_pred, labels) ==
    LET present_labels == _unique_labels(y_true, y_pred)
        n_labels == Len(labels)
        all_labels == labels \o setdiff1d(present_labels, labels)
        cols == SubSeq(all_labels, 1, n_labels)
        yt == getitem_columns(y_true, cols)
        yp == getitem_columns(y_pred, cols)
    IN  IF ~yt.ok THEN yt
        ELSE IF ~yp.ok THEN yp
        ELSE ndarray_multiply(yt.val, yp.val)

(***************************************************************************)
(* _prf_divide, lines 87-99.                                               *)
(***************************************************************************)
_prf_divide(numerator, denominator) ==
    LET mask == [i \in 1 .. Len(denominator) |-> denominator[i] = 0]
        den == [i \in 1 .. Len(denominator) |-> IF mask[i] THEN 1 ELSE denominator[i]]
        result == [i \in 1 .. Len(numerator) |-> Frac(numerator[i], den[i])]
    IN  IF \A i \in 1 .. Len(mask) : ~mask[i] THEN result
        ELSE [i \in 1 .. Len(result) |-> IF mask[i] THEN Float(1) ELSE result[i]]

(***************************************************************************)
(* beta: a finite non-negative number or +inf.                             *)
(***************************************************************************)
Finite(b) == [inf |-> FALSE, val |-> b]

PosInf == [inf |-> TRUE, val |-> 0]

Betas == {Finite(0), Finite(1), Finite(2), PosInf}

(***************************************************************************)
(* Lines 114-136 of _precision_recall_fscore_support: the derivation from  *)
(* the confusion tables mcm, mcm[c] = [tn, fp, fn, tp].                    *)
(***************************************************************************)
\* the f-score with 1.0 substituted where the denominator is zero
f_score_of_safe_divide(precision, recall, beta) ==
    IF beta.inf THEN recall
    ELSE LET beta2 == Float(beta.val * beta.val)
             denom == [i \in 1 .. Len(precision) |->
                          FAdd(FMul(beta2, precision[i]), recall[i])]
         IN  [i \in 1 .. Len(precision) |->
                 IF FIsZero(denom[i]) THEN Float(1)
                 ELSE FDiv(FMul(FMul(FAdd(Float(1), beta2), precision[i]), recall[i]),
                           denom[i])]

\* lines 126-132
f_score_of(precision, recall, beta) ==
    IF beta.inf THEN recall
    ELSE LET beta2 == Float(beta.val * beta.val)
             denom0 == [i \in 1 .. Len(precision) |->
                           FAdd(FMul(beta2, precision[i]), recall[i])]
             denom == [i \in 1 .. Len(denom0) |->
                          IF FIsZero(denom0[i]) THEN Float(1) ELSE denom0[i]]
         IN  [i \in 1 .. Len(precision) |->
                 FDiv(FMul(FMul(FAdd(Float(1), beta2), precision[i]), recall[i]),
                      denom[i])]

derive_metrics(mcm, beta) ==
    LET tp_sum == [i \in 1 .. Len(mcm) |-> mcm[i].tp]
        pred_sum == [i \in 1 .. Len(mcm) |-> tp_sum[i] + mcm[i].fp]
        true_sum == [i \in 1 .. Len(mcm) |-> tp_sum[i] + mcm[i].fn]
        precision == _prf_divide(tp_sum, pred_sum)
        recall == _prf_divide(tp_sum, true_sum)
    IN  [precision |-> precision, recall |-> recall,
         f_score |-> f_score_of(precision, recall, beta), true_sum |-> true_sum]

(***************************************************************************)
(* _precision_recall_fscore_support, lines 102-136.                        *)
(***************************************************************************)
\* lines 114-136 on the outcome of line 109: an exception of the call passes through
metrics_of(mcm, beta) == IF mcm.ok THEN Ok(derive_metrics(mcm.val, beta)) ELSE mcm

_precision_recall_fscore_support(y_true, y_pred, labels, beta) ==
    metrics_of(_multilabel_confusion_matrix(y_true, y_pred, labels), beta)

(***************************************************************************)
(* compute_scores, lines 139-167.  The report holds one row per zipped     *)
(* target name and nothing else.                                           *)
(***************************************************************************)
Headers == {"precision", "recall", "f1-score", "support"}

\* lines 161-167: the rows zipped from target_names and the metric arrays
report_dict(target_names, m) ==
    LET n == Min(Len(target_names), Len(m.precision))
        \* a later row of the same name replaces the earlier one
        last(name) == CHOOSE i \in 1 .. n :
                         /\ target_names[i] = name
                         /\ \A j \in i + 1 .. n : target_names[j] # name
        row(i) == [h \in Headers |->
                     CASE h = "precision" -> m.precision[i]
                       [] h = "recall" -> m.recall[i]
                       [] h = "f1-score" -> m.f_score[i]
                       [] OTHER -> Float(m.true_sum[i])]
    IN  [name \in {target_names[i] : i \in 1 .. n} |-> row(last(name))]

\* lines 161-167 on the outcome of line 156: an exception of the call passes through
report_of(target_names, prfs) ==
    IF prfs.ok THEN Ok(report_dict(target_names, prfs.val)) ELSE prfs

\* lines 154-167
score_report(y_true, y_pred, labels, target_names) ==
    report_of(target_names,
              _precision_recall_fscore_support(y_true, y_pred, labels, Finite(1)))

\* compute_scores with the check of line 147 made for an empty list too
compute_scores_checks_empty_names(y_true, y_pred, target_names) ==
    LET labels == _unique_labels(y_true, y_pred)
    IN  IF Len(labels) # Len(target_names)
        THEN Raise("ValueError")
        ELSE score_report(y_true, y_pred, labels, target_names)

compute_scores(y_true, y_pred, target_names) ==
    LET labels == _unique_labels(y_true, y_pred)
    IN  IF target_names # <<>> /\ Len(labels) # Len(target_names)
        THEN Raise("ValueError")
        ELSE score_report(y_true, y_pred, labels, target_names)

(***************************************************************************)
(* The configuration: get_parent_categories(config.categories), a dict     *)
(* from tag name to its class list, in iteration order.                    *)
(***************************************************************************)
TagNames == <<"weather", "scene", "timeofday", "crowd">>

classes_of(tag) ==
    CASE tag = "weather" -> <<"rainy", "sunny">>
      [] tag = "scene" -> <<"city", "highway", "tunnel">>
      [] tag = "timeofday" -> <<"day", "night">>
      [] OTHER -> <<"few", "many">>

\* tag.upper()
upper(tag) ==
    CASE tag = "weather" -> "WEATHER"
      [] tag = "scene" -> "SCENE"
      [] tag = "timeofday" -> "TIMEOFDAY"
      [] OTHER -> "CROWD"

(***************************************************************************)
(* What a frame holds for a tag: no attributes at all, attributes without  *)
(* the tag, or a value, which is a string or something else.               *)
(***************************************************************************)
NoAttrs == [type |-> "NoneType", val |-> "attributes"]

Absent == [type |-> "absent", val |-> ""]

Str(x) == [type |-> "str", val |-> x]

NotStr == [type |-> "int", val |-> "7"]

AttrValues(tag) ==
    {Absent, NotStr, Str("foggy")} \cup {Str(c) : c \in Range(classes_of(tag))}

\* the columns a tag can have, given which frames have no attributes
Columns(none, tag) ==
    {col \in [1 .. Len(none) -> AttrValues(tag) \cup {NoAttrs}] :
        \A i \in 1 .. Len(none) : none[i] <=> col[i] = NoAttrs}

Metrics == {"precision", "recall", "f1_score", "accuracy"}

(***************************************************************************)
(* Two slips of the inner loop: the skip made on the prediction's          *)
(* attributes instead of the ground truth's, and a prediction outside the  *)
(* class list dropped instead of refused.                                  *)
(***************************************************************************)
extract_pair_skips_on_prediction(p, g, classes) ==
    IF p = NoAttrs THEN [kind |-> "skip", exc |-> "none", p_idx |-> 0, g_idx |-> 0]
    ELSE IF g = NoAttrs
    THEN [kind |-> "raise", exc |-> "AssertionError", p_idx |-> 0, g_idx |-> 0]
    ELSE IF p = Absent \/ g = Absent
    THEN [kind |-> "raise", exc |-> "KeyError", p_idx |-> 0, g_idx |-> 0]
    ELSE IF ~(p.type = "str" /\ g.type = "str")
    THEN [kind |-> "raise", exc |-> "AssertionError", p_idx |-> 0, g_idx |-> 0]
    ELSE IF ~(p.val \in Range(classes) /\ g.val \in Range(classes))
    THEN [kind |-> "raise", exc |-> "AssertionError", p_idx |-> 0, g_idx |-> 0]
    ELSE [kind |-> "append", exc |-> "none",
          p_idx |-> Index(classes, p.val), g_idx |-> Index(classes, g.val)]

extract_pair_drops_unknown_class(p, g, classes) ==
    IF g = NoAttrs THEN [kind |-> "skip", exc |-> "none", p_idx |-> 0, g_idx |-> 0]
    ELSE IF p = NoAttrs
    THEN [kind |-> "raise", exc |-> "AssertionError", p_idx |-> 0, g_idx |-> 0]
    ELSE IF p = Absent \/ g = Absent
    THEN [kind |-> "raise", exc |-> "KeyError", p_idx |-> 0, g_idx |-> 0]
    ELSE IF ~(p.type = "str" /\ g.type = "str")
    THEN [kind |-> "raise", exc |-> "AssertionError", p_idx |-> 0, g_idx |-> 0]
    ELSE IF ~(p.val \in Range(classes) /\ g.val \in Range(classes))
    THEN [kind |-> "skip", exc |-> "none", p_idx |-> 0, g_idx |-> 0]
    ELSE [kind |-> "append", exc |-> "none",
          p_idx |-> Index(classes, p.val), g_idx |-> Index(classes, g.val)]

(***************************************************************************)
(* Lines 223-230, one frame pair of the inner loop.                        *)
(***************************************************************************)
extract_pair(p, g, classes) ==
    IF g = NoAttrs THEN [kind |-> "skip", exc |-> "none", p_idx |-> 0, g_idx |-> 0]
    ELSE IF p = NoAttrs
    THEN [kind |-> "raise", exc |-> "AssertionError", p_idx |-> 0, g_idx |-> 0]
    ELSE IF p = Absent \/ g = Absent
    THEN [kind |-> "raise", exc |-> "KeyError", p_idx |-> 0, g_idx |-> 0]
    ELSE IF ~(p.type = "str" /\ g.type = "str")
    THEN [kind |-> "raise", exc |-> "AssertionError", p_idx |-> 0, g_idx |-> 0]
    ELSE IF ~(p.val \in Range(classes) /\ g.val \in Range(classes))
    THEN [kind |-> "raise", exc |-> "AssertionError", p_idx |-> 0, g_idx |-> 0]
    ELSE [kind |-> "append", exc |-> "none",
          p_idx |-> Index(classes, p.val), g_idx |-> Index(classes, g.val)]

(***************************************************************************)
(* Lines 235-249: the formatted dictionaries of one tag and the tag's      *)
(* averages.  A key "{tag}.{cat}" is the pair <<tag, cat>>.                *)
(***************************************************************************)
Times100(x) == FMul(x, Float(100))

header_of(met) == IF met = "f1_score" THEN "f1-score" ELSE met

format_tag(tag, classes, scores, avg) ==
    LET cats == Range(classes)
        keys == {<<tag, cat>> : cat \in cats}
        enough == Cardinality(DOMAIN scores) > 3
        out == [m \in Metrics |->
                   IF m = "accuracy" THEN [k \in keys |-> NaN]
                   ELSE [k \in keys |->
                            IF k[2] \in DOMAIN scores
                            THEN Times100(scores[k[2]][header_of(m)])
                            ELSE NaN]]
        put(d, k, v) == [x \in DOMAIN d \cup {k} |-> IF x = k THEN v ELSE d[x]]
    IN  IF enough /\ "macro avg" \notin DOMAIN scores THEN Raise("KeyError")
        ELSE IF "accuracy" \notin DOMAIN scores THEN Raise("KeyError")
        ELSE Ok([out |-> out,
                 avgs |-> [m \in Metrics |->
                              put(avg[m], upper(tag),
                                  IF m = "accuracy" THEN Times100(scores["accuracy"])
                                  ELSE IF enough
                                  THEN Times100(scores["macro avg"][header_of(m)])
                                  ELSE NaN)]])

(***************************************************************************)
(* Lines 252-255: np.nanmean and the two closing dictionaries.             *)
(***************************************************************************)
RECURSIVE FSum(_, _)
FSum(d, K) ==
    IF K = {} THEN Float(0)
    ELSE LET k == CHOOSE x \in K : TRUE IN FAdd(d[k], FSum(d, K \ {k}))

nanmean(d) ==
    LET K == {k \in DOMAIN d : ~IsNaN(d[k])}
    IN  IF K = {} THEN NaN ELSE FDiv(FSum(d, K), Float(Cardinality(K)))

finalize(outs, avg) ==
    [m \in Metrics |-> outs[m] \o <<avg[m], [k \in {"average"} |-> nanmean(avg[m])]>>]

(***************************************************************************)
(* Lines 231-234: the label arrays and the observed classes of a tag.      *)
(***************************************************************************)
gt_classes_of(classes, gts, preds) ==
    LET ids == Sorted(Range(gts \o preds))
    IN  [i \in 1 .. Len(ids) |-> classes[ids[i] + 1]]

tag_scores(classes, gts, preds) ==
    compute_scores(Array1(gts), Array1(preds), gt_classes_of(classes, gts, preds))

(***************************************************************************)
(* evaluate_tagging, lines 196-255.                                        *)
(***************************************************************************)
EmptyDict == [k \in {} |-> NaN]

\* lines 213-218; reorder_preds hands back one prediction per ground truth
Start ==
    /\ pc = "start"
    /\ IF ntags = 0
       THEN /\ pc' = "raised"
            /\ error' = "AssertionError"
            /\ UNCHANGED <<outputs, avgs, ti>>
       ELSE /\ pc' = "tag"
            /\ outputs' = [m \in Metrics |-> <<>>]
            /\ avgs' = [m \in Metrics |-> EmptyDict]
            /\ ti' = 1
            /\ UNCHANGED error
    /\ UNCHANGED <<ntags, g_none, p_none, g_col, p_col, fi, preds_cls, gts_cls>>
    /\ UNCHANGED fnVars

\* lines 219-221; the frames' values for this tag are read from here on
TagStart ==
    /\ pc = "tag"
    /\ \E gc \in Columns(g_none, TagNames[ti]), pcl \in Columns(p_none, TagNames[ti]) :
          /\ g_col' = gc
          /\ p_col' = pcl
    /\ preds_cls' = <<>>
    /\ gts_cls' = <<>>
    /\ fi' = 1
    /\ pc' = "extract"
    /\ UNCHANGED <<ntags, g_none, p_none, ti, outputs, avgs, error>>
    /\ UNCHANGED fnVars

\* lines 222-230, one frame pair
Extract ==
    /\ pc = "extract"
    /\ fi <= Len(g_none)
    /\ LET r == extract_pair(p_col[fi], g_col[fi], classes_of(TagNames[ti]))
       IN  CASE r.kind = "skip" ->
                  /\ fi' = fi + 1
                  /\ UNCHANGED <<preds_cls, gts_cls, pc, error>>
             [] r.kind = "append" ->
                  /\ fi' = fi + 1
                  /\ preds_cls' = Append(preds_cls, r.p_idx)
                  /\ gts_cls' = Append(gts_cls, r.g_idx)
                  /\ UNCHANGED <<pc, error>>
             [] OTHER ->
                  /\ pc' = "raised"
                  /\ error' = r.exc
                  /\ UNCHANGED <<fi, preds_cls, gts_cls>>
    /\ UNCHANGED <<ntags, g_none, p_none, ti, g_col, p_col, outputs, avgs>>
    /\ UNCHANGED fnVars

\* lines 235-249 on the outcome of compute_scores
format_scores(tag, classes, scores, avg) ==
    IF scores.ok THEN format_tag(tag, classes, scores.val, avg) ELSE scores

\* lines 231-251 for the tag, then the next tag or lines 252-255
Compute ==
    /\ pc = "extract"
    /\ fi > Len(g_none)
    /\ \E fmt \in {format_scores(TagNames[ti], classes_of(TagNames[ti]),
                                 tag_scores(classes_of(TagNames[ti]), gts_cls, preds_cls),
                                 avgs)} :
          IF ~fmt.ok
          THEN /\ pc' = "raised"
               /\ error' = fmt.exc
               /\ UNCHANGED <<outputs, avgs, ti>>
          ELSE \E outs \in {[m \in Metrics |-> Append(outputs[m], fmt.val.out[m])]} :
                  /\ avgs' = fmt.val.avgs
                  /\ UNCHANGED error
                  /\ IF ti < ntags
                     THEN /\ outputs' = outs
                          /\ ti' = ti + 1
                          /\ pc' = "tag"
                     ELSE /\ outputs' = finalize(outs, fmt.val.avgs)
                          /\ pc' = "returned"
                          /\ UNCHANGED ti
    /\ UNCHANGED <<ntags, g_none, p_none, g_col, p_col, fi, preds_cls, gts_cls>>
    /\ UNCHANGED fnVars

FnIdle ==
    /\ fn = "idle"
    /\ args = <<>>
    /\ ret = Ok(<<>>)

Init ==
    /\ pc = "start"
    /\ ntags \in 0 .. MaxTags
    /\ g_none \in SeqsUpTo(BOOLEAN, MaxFrames)
    /\ p_none \in [1 .. Len(g_none) -> BOOLEAN]
    /\ ti = 0
    /\ g_col = <<>>
    /\ p_col = <<>>
    /\ fi = 0
    /\ preds_cls = <<>>
    /\ gts_cls = <<>>
    /\ outputs = [m \in Metrics |-> <<>>]
    /\ avgs = [m \in Metrics |-> EmptyDict]
    /\ error = "none"
    /\ FnIdle

Next == Start \/ TagStart \/ Extract \/ Compute

Spec == Init /\ [][Next]_vars

(***************************************************************************)
(* One call of a helper function on inputs drawn from bounded sets.        *)
(***************************************************************************)
\* 1-D label arrays of length n, as built at lines 231-232
LabelArrays(n) == {Array1(d) : d \in [1 .. n -> ClassIds]}

ClassLists == InjSeqs(ClassIds, Cardinality(ClassIds))

TargetNames == SeqsUpTo({"rainy", "sunny", "snowy"}, Cardinality(ClassIds))

Counts == 0 .. MaxCount

ConfusionTables == [tn : Counts, fp : Counts, fn : Counts, tp : Counts]

Call(f, a, r) ==
    /\ fn' = f
    /\ args' = a
    /\ ret' = r
    /\ UNCHANGED evalVars

CallUniqueLabels ==
    /\ fn = "idle"
    /\ \E n \in 0 .. MaxLen :
          \E y_true, y_pred \in LabelArrays(n) :
              Call("_unique_labels", [y_true |-> y_true, y_pred |-> y_pred],
                   Ok(_unique_labels(y_true, y_pred)))

CallConfusionMatrix ==
    /\ fn = "idle"
    /\ \E n \in 0 .. MaxLen :
          \E y_true, y_pred \in LabelArrays(n), labels \in ClassLists :
              Call("_multilabel_confusion_matrix",
                   [y_true |-> y_true, y_pred |-> y_pred, labels |-> labels],
                   _multilabel_confusion_matrix(y_true, y_pred, labels))

CallPrfDivide ==
    /\ fn = "idle"
    /\ \E n \in 0 .. 2 :
          \E numerator, denominator \in [1 .. n -> Counts] :
              Call("_prf_divide", [numerator |-> numerator, denominator |-> denominator],
                   Ok(_prf_divide(numerator, denominator)))

CallPrfs ==
    /\ fn = "idle"
    /\ \E n \in 0 .. MaxLen :
          \E y_true, y_pred \in LabelArrays(n), labels \in ClassLists, beta \in Betas :
              Call("_precision_recall_fscore_support",
                   [y_true |-> y_true, y_pred |-> y_pred, labels |-> labels, beta |-> beta],
                   _precision_recall_fscore_support(y_true, y_pred, labels, beta))

\* lines 114-136 on a confusion table each for up to two classes
DeriveMetrics ==
    /\ fn = "idle"
    /\ \E mcm \in SeqsUpTo(ConfusionTables, 2), beta \in Betas :
          Call("derive_metrics", [mcm |-> mcm, beta |-> beta], Ok(derive_metrics(mcm, beta)))

CallComputeScores ==
    /\ fn = "idle"
    /\ \E n \in 0 .. MaxLen :
          \E y_true, y_pred \in LabelArrays(n), target_names \in TargetNames :
              Call("compute_scores",
                   [y_true |-> y_true, y_pred |-> y_pred, target_names |-> target_names],
                   compute_scores(y_true, y_pred, target_names))

InitFn ==
    /\ pc = "start"
    /\ ntags = 0
    /\ g_none = <<>>
    /\ p_none = <<>>
    /\ ti = 0
    /\ g_col = <<>>
    /\ p_col = <<>>
    /\ fi = 0
    /\ preds_cls = <<>>
    /\ gts_cls = <<>>
    /\ outputs = [m \in Metrics |-> <<>>]
    /\ avgs = [m \in Metrics |-> EmptyDict]
    /\ error = "none"
    /\ FnIdle

NextFn ==
    \/ CallUniqueLabels
    \/ CallConfusionMatrix
    \/ CallPrfDivide
    \/ CallPrfs
    \/ DeriveMetrics
    \/ CallComputeScores

SpecFn == InitFn /\ [][NextFn]_vars

(***************************************************************************)
(* What the specification says of the metrics, stated on the label arrays: *)
(* the reference the claims compare the code with.                         *)
(***************************************************************************)
RefTP(yt, yp, c) == Cardinality({i \in 1 .. Len(yt) : yt[i] = c /\ yp[i] = c})

RefFP(yt, yp, c) == Cardinality({i \in 1 .. Len(yt) : yt[i] # c /\ yp[i] = c})

RefFN(yt, yp, c) == Cardinality({i \in 1 .. Len(yt) : yt[i] = c /\ yp[i] # c})

SafeRatio(n, d) == IF d = 0 THEN Float(1) ELSE Frac(n, d)

RefPrecision(yt, yp, c) == SafeRatio(RefTP(yt, yp, c), RefTP(yt, yp, c) + RefFP(yt, yp, c))

RefRecall(yt, yp, c) == SafeRatio(RefTP(yt, yp, c), RefTP(yt, yp, c) + RefFN(yt, yp, c))

RECURSIVE SeqSum(_)
SeqSum(s) == IF s = <<>> THEN Float(0) ELSE FAdd(Head(s), SeqSum(Tail(s)))

Mean(s) == IF s = <<>> THEN NaN ELSE FDiv(SeqSum(s), Float(Len(s)))

\* the labels a call's confusion matrix reports: the requested ones, then the others observed
ReportedLabels(a) == a.labels \o setdiff1d(_unique_labels(a.y_true, a.y_pred), a.labels)

(***************************************************************************)
(* C1.  For equal-length label arrays and every requested class list,      *)
(* _multilabel_confusion_matrix returns one table per class with           *)
(* TN + FP + FN + TP = number of frames, TP the frames with true = pred =  *)
(* c, FP those with pred = c and true # c, FN those with true = c and      *)
(* pred # c.                                                               *)
(***************************************************************************)
C1_ConfusionComplete ==
    fn = "_multilabel_confusion_matrix" =>
        /\ ret.ok
        /\ Len(ret.val) = Len(ReportedLabels(args))
        /\ \A k \in 1 .. Len(ret.val) :
              LET c == ReportedLabels(args)[k]
                  t == ret.val[k]
              IN  /\ t.tn + t.fp + t.fn + t.tp = Len(args.y_true.data)
                  /\ t.tp = RefTP(args.y_true.data, args.y_pred.data, c)
                  /\ t.fp = RefFP(args.y_true.data, args.y_pred.data, c)
                  /\ t.fn = RefFN(args.y_true.data, args.y_pred.data, c)

(***************************************************************************)
(* C2.  _precision_recall_fscore_support returns, for every class c,       *)
(* precision[c] = TP/(TP+FP), or 1.0 when TP+FP = 0, and recall[c] =       *)
(* TP/(TP+FN), or 1.0 when TP+FN = 0; no value is NaN.                     *)
(***************************************************************************)
C2_SafeDividedPrecisionRecall ==
    fn = "_precision_recall_fscore_support" =>
        /\ ret.ok
        /\ \A k \in 1 .. Len(args.labels) :
              LET c == args.labels[k]
              IN  /\ ret.val.precision[k] = RefPrecision(args.y_true.data, args.y_pred.data, c)
                  /\ ret.val.recall[k] = RefRecall(args.y_true.data, args.y_pred.data, c)
                  /\ ~IsNaN(ret.val.precision[k])
                  /\ ~IsNaN(ret.val.recall[k])

\* Lines 114-122 alone, on any confusion tables, do follow the convention of C2.
DerivedPrecisionRecallSafe ==
    fn = "derive_metrics" =>
        \A k \in 1 .. Len(args.mcm) :
            LET t == args.mcm[k]
            IN  /\ ret.val.precision[k] = SafeRatio(t.tp, t.tp + t.fp)
                /\ ret.val.recall[k] = SafeRatio(t.tp, t.tp + t.fn)

(***************************************************************************)
(* C3.  The f-score for a class whose denominator beta^2 * precision +     *)
(* recall is zero, for finite beta.                                        *)
(***************************************************************************)
MetricsReturned ==
    /\ fn \in {"derive_metrics", "_precision_recall_fscore_support"}
    /\ ret.ok
    /\ ~args.beta.inf

ZeroDenominator(k) ==
    FIsZero(FAdd(FMul(Float(args.beta.val * args.beta.val), ret.val.precision[k]),
                 ret.val.recall[k]))

C4_MacroAvgAndAccuracyRows ==
    (/\ fn = "compute_scores"
     /\ Len(_unique_labels(args.y_true, args.y_pred)) = Len(args.target_names)
     /\ Len(args.y_true.data) > 0) =>
        /\ ret.ok
        /\ "macro avg" \in DOMAIN ret.val
        /\ "accuracy" \in DOMAIN ret.val
        /\ LET n == Len(args.target_names)
           IN  \A h \in {"precision", "recall", "f1-score"} :
                   ret.val["macro avg"][h] =
                       Mean([i \in 1 .. n |-> ret.val[args.target_names[i]][h]])
        /\ ret.val["accuracy"] =
              Frac(Cardinality({i \in 1 .. Len(args.y_true.data) :
                                   args.y_true.data[i] = args.y_pred.data[i]}),
                   Len(args.y_true.data))

(***************************************************************************)
(* C9.  compute_scores and a class-name list whose length differs from the *)
(* number of distinct class indices observed.                              *)
(***************************************************************************)
Mismatch == Len(_unique_labels(args.y_true, args.y_pred)) # Len(args.target_names)

C10_EmptyInputAllZero ==
    (/\ fn = "_multilabel_confusion_matrix"
     /\ (args.y_true.data = <<>> \/ args.labels = <<>>)) =>
        /\ ret.ok
        /\ \A k \in 1 .. Len(ret.val) :
              ret.val[k] = [tn |-> 0, fp |-> 0, fn |-> 0, tp |-> 0]

(***************************************************************************)
(* evaluate_tagging: the frame pairs of the tag being processed.           *)
(***************************************************************************)
InTag == ti >= 1 /\ pc \in {"extract", "raised", "returned"}

Frames == 1 .. Len(g_none)

\* the run ended at line 223-230 on frame pair i
RaisedAt(i) == pc = "raised" /\ ti >= 1 /\ fi = i /\ i \in Frames

\* the frame pairs the loop has gone past
Passed == {i \in Frames : i < fi}

\* the inner loop of the tag ran to its end
LoopDone == ti >= 1 /\ fi > Len(g_none)

BadValue(v) ==
    /\ v \notin {NoAttrs, Absent}
    /\ (v.type # "str" \/ v.val \notin Range(classes_of(TagNames[ti])))

(***************************************************************************)
(* C5.  A frame pair whose ground truth has no attribute for the tag.      *)
(***************************************************************************)
LacksAttribute(i) == g_col[i] \in {NoAttrs, Absent}

\* C5 as claimed: a pair whose ground truth has no attributes, or has
\* attributes without the tag, is skipped without an error, and the label
\* pairs used for the tag are the frames less those.
C5_MissingAttributeSkipped ==
    InTag =>
        /\ \A i \in Frames : RaisedAt(i) => ~LacksAttribute(i)
        /\ LoopDone =>
              Len(gts_cls) = Len(g_none) - Cardinality({i \in Frames : LacksAttribute(i)})

\* C5 as amended: a pair whose ground truth has attributes None is skipped
\* without an error, and the label pairs used are the frames gone past less
\* those; ground-truth attributes without the tag are never gone past (line
\* 226 raises on them).
C5_NoAttributesSkipped ==
    InTag =>
        /\ \A i \in Frames : RaisedAt(i) => g_col[i] # NoAttrs
        /\ Len(gts_cls) = Len(preds_cls)
        /\ Len(gts_cls) = Cardinality({i \in Passed : g_col[i] # NoAttrs})
        /\ \A i \in Passed : g_col[i] # Absent

\* the loop ended over two frames, one skipped and one used
C5_Witness ==
    /\ pc = "extract"
    /\ LoopDone
    /\ Len(g_none) = 2
    /\ \E i \in Frames : g_col[i] = NoAttrs
    /\ Len(gts_cls) = 1

(***************************************************************************)
(* C6.  A frame pair that is not skipped and is malformed.                 *)
(***************************************************************************)
ClaimedBadPair(i) ==
    /\ ~LacksAttribute(i)
    /\ (p_col[i] = NoAttrs \/ BadValue(p_col[i]) \/ BadValue(g_col[i]))

\* C6 as claimed: with such a pair among the frames of a tag, the run ends
\* in an AssertionError.
C6_BadPairEndsInAssertion ==
    (InTag /\ pc # "extract" /\ \E i \in Frames : ClaimedBadPair(i)) =>
        (pc = "raised" /\ error = "AssertionError")

\* the pairs lines 225, 227 and 228 refuse
AssertPair(i) ==
    /\ g_col[i] # NoAttrs
    /\ \/ p_col[i] = NoAttrs
       \/ /\ p_col[i] # Absent
          /\ g_col[i] # Absent
          /\ (BadValue(p_col[i]) \/ BadValue(g_col[i]))

\* the pairs line 226 fails on
KeyPair(i) ==
    /\ g_col[i] # NoAttrs
    /\ p_col[i] # NoAttrs
    /\ (p_col[i] = Absent \/ g_col[i] = Absent)

\* C6 as amended: the loop never goes past such a pair and no result is
\* returned; the run ends at the first failing pair it reaches, with an
\* AssertionError when the prediction has no attributes or both values are
\* there and one is not a string of the class list, with a KeyError when the
\* tag is missing from the attributes of either frame.
C6_AssertionAtFirstFailure ==
    InTag =>
        /\ \A i \in Passed : ~AssertPair(i) /\ ~KeyPair(i)
        /\ \A i \in Frames :
              RaisedAt(i) => \/ AssertPair(i) /\ error = "AssertionError"
                             \/ KeyPair(i) /\ ~AssertPair(i) /\ error = "KeyError"
        /\ pc = "returned" => \A i \in Frames : ~AssertPair(i)

\* the second pair predicts a string outside the class list, after a pair that was used
C6_Witness ==
    /\ RaisedAt(2)
    /\ error = "AssertionError"
    /\ Len(gts_cls) = 1
    /\ p_col[2] = Str("foggy")
    /\ g_col[2] = Str("sunny")

(***************************************************************************)
(* C7.  After the T tags are processed each of the four sequences has      *)
(* T + 2 entries: the per-tag dictionaries in tag order, the dictionary of *)
(* per-tag averages keyed by the uppercased tag names, and the dictionary  *)
(* whose "average" is the NaN-ignoring mean of those.                      *)
(***************************************************************************)
C7_ResultSequences ==
    (LoopDone /\ pc \in {"raised", "returned"}) =>
        /\ pc = "returned"
        /\ \A m \in Metrics :
              /\ Len(outputs[m]) = ntags + 2
              /\ \A t \in 1 .. ntags :
                    DOMAIN outputs[m][t] =
                        {<<TagNames[t], c>> : c \in Range(classes_of(TagNames[t]))}
              /\ DOMAIN outputs[m][ntags + 1] = {upper(TagNames[t]) : t \in 1 .. ntags}
              /\ outputs[m][ntags + 2] =
                    [k \in {"average"} |-> nanmean(outputs[m][ntags + 1])]

(***************************************************************************)
(* C8.  The per-tag macro-average entry of precision, recall and f1_score  *)
(* is NaN exactly when fewer than 2 distinct classes are observed for the  *)
(* tag, and otherwise 100 times the macro average of the tag's report.     *)
(***************************************************************************)
C8_MacroAverageEntry ==
    (LoopDone /\ pc \in {"raised", "tag", "returned"}) =>
        LET t == IF pc = "tag" THEN ti - 1 ELSE ti
            key == upper(TagNames[t])
            observed == Sorted(Range(gts_cls \o preds_cls))
        IN  /\ error = "none"
            /\ \A m \in {"precision", "recall", "f1_score"} :
                  /\ key \in DOMAIN avgs[m]
                  /\ IsNaN(avgs[m][key]) <=> Len(observed) < 2
            /\ Len(observed) >= 2 =>
                  /\ avgs["precision"][key] =
                        Times100(Mean([k \in 1 .. Len(observed) |->
                                          RefPrecision(gts_cls, preds_cls, observed[k])]))
                  /\ avgs["recall"][key] =
                        Times100(Mean([k \in 1 .. Len(observed) |->
                                          RefRecall(gts_cls, preds_cls, observed[k])]))
====
